---- MODULE Spec2Model ----
(***************************************************************************)
(* Model of the stardew-stats save-game decoder (src/src/stardew.rs) and   *)
(* of the page component that calls it (src/src/app.rs).                   *)
(*                                                                         *)
(* A document is a tree of nodes as roxmltree exposes it.  Text content is *)
(* a sequence of one-character strings, so that parsing is computed digit  *)
(* by digit; tag names, field names and attribute values are only ever     *)
(* compared, and are TLA+ strings.  An Option<T> is a sequence of length   *)
(* 0 (None) or 1 (Some).  An anyhow::Error is its chain of messages,       *)
(* outermost context first; a message is its format string together with   *)
(* the values substituted into it.                                         *)
(***************************************************************************)
EXTENDS Integers, Sequences, FiniteSets, TLC

VARIABLES pc, fam, input, value, call, ret,
          frames, examined,
          app, handled, panicked

\* The record decodes under way in a load taken one field at a time, and the
\* fields it has examined so far.
stepVars == <<frames, examined>>

\* The App component (its fields upload_task and content), the message its
\* update handled last, and whether a panic has ended the program.
appVars == <<app, handled, panicked>>

vars == <<pc, fam, input, value, call, ret, stepVars, appVars>>

(***************************************************************************)
(* Bounds of the checked input families.                                   *)
(***************************************************************************)
MaxChildren == 2
MaxListItems == 3
MaxPolyItems == 3

(***************************************************************************)
(* Option and Result.                                                      *)
(***************************************************************************)
None == <<>>
Some(x) == <<x>>
IsSome(o) == Len(o) > 0
Unwrap(o) == o[1]

Ok(v) == [kind |-> "ok", val |-> v]
Err(e) == [kind |-> "err", err |-> e]
Panic(m) == [kind |-> "panic", msg |-> m]
IsOk(r) == r.kind = "ok"
IsErr(r) == r.kind = "err"
IsPanic(r) == r.kind = "panic"

(***************************************************************************)
(* The node interface of roxmltree used by the decoder.                    *)
(***************************************************************************)
NoAttrs == [a \in {} |-> ""]

Element(tag, attrs, children) ==
    [kind |-> "element", tag |-> tag, attrs |-> attrs, children |-> children, text |-> <<>>]

TextNode(t) ==
    [kind |-> "text", tag |-> "", attrs |-> NoAttrs, children |-> <<>>, text |-> t]

CommentNode(t) ==
    [kind |-> "comment", tag |-> "", attrs |-> NoAttrs, children |-> <<>>, text |-> t]

is_element(n) == n.kind = "element"

tag_name(n) == n.tag

\* Node::text(): the text of an element is that of its first child when that
\* child is a text node.
text(n) ==
    IF n.kind = "element"
    THEN IF Len(n.children) > 0 /\ n.children[1].kind = "text"
         THEN Some(n.children[1].text)
         ELSE None
    ELSE Some(n.text)

attribute(n, a) == IF a \in DOMAIN n.attrs THEN Some(n.attrs[a]) ELSE None

ElementChildren(n) == SelectSeq(n.children, is_element)

first_element_child(n) ==
    IF Len(ElementChildren(n)) > 0 THEN Some(ElementChildren(n)[1]) ELSE None

(***************************************************************************)
(* Field map construction: .filter(is_element).map(|c| (tag, c)).collect() *)
(* into a HashMap.  Entries are inserted in document order and an insert   *)
(* under an existing key replaces the entry.  Inserting the children       *)
(* lo..hi one after the other is inserting lo..mid and then mid+1..hi; the *)
(* split only keeps the evaluation shallow for scopes of many fields.      *)
(***************************************************************************)
EmptyMap == [k \in {} |-> 0]

Insert(m, k, v) == [x \in DOMAIN m \cup {k} |-> IF x = k THEN v ELSE m[x]]

\* A map that keeps the entry it already holds.
InsertAllKeepingFirst(m, later) ==
    [x \in DOMAIN m \cup DOMAIN later |-> IF x \in DOMAIN m THEN m[x] ELSE later[x]]

\* m with every entry of later inserted into it.
InsertAll(m, later) ==
    [x \in DOMAIN m \cup DOMAIN later |-> IF x \in DOMAIN later THEN later[x] ELSE m[x]]

RECURSIVE CollectRange(_, _, _)
CollectRange(s, lo, hi) ==
    IF lo > hi THEN EmptyMap
    ELSE IF lo = hi THEN Insert(EmptyMap, tag_name(s[lo]), s[lo])
    ELSE InsertAll(CollectRange(s, lo, (lo + hi) \div 2),
                   CollectRange(s, (lo + hi) \div 2 + 1, hi))

FieldMap(n) == CollectRange(ElementChildren(n), 1, Len(ElementChildren(n)))

(***************************************************************************)
(* Error messages, one constructor per format string of the source (the    *)
(* back quotes around each placeholder are left out of the strings).       *)
(***************************************************************************)
MsgMissing(name) == [fmt |-> "field {} is missing", name |-> name]
MsgNoContent(name) == [fmt |-> "field {} has not content", name |-> name]
MsgInvalid(content, name) ==
    [fmt |-> "invalid content {} in {} field", content |-> content, name |-> name]
MsgTagSwapped(tag, found) ==
    [fmt |-> "tag name wasn't {} but {}", tag |-> found, found |-> tag]
MsgTag(tag, found) == [fmt |-> "tag name wasn't {} but {}", tag |-> tag, found |-> found]
MsgNoTagContent(tag) == [fmt |-> "no content in <{}> tag", tag |-> tag]
MsgSeason(s) == [fmt |-> "unknown season {}", content |-> s]
MsgParseInt(k) == [fmt |-> "ParseIntError", detail |-> k]
MsgParseFloat(k) == [fmt |-> "ParseFloatError", detail |-> k]

\* Option::with_context / Result::with_context of anyhow.
ErrorOf(msg) == <<msg>>
WithContext(msg, e) == <<msg>> \o e

(***************************************************************************)
(* FromStr for the scalar targets of parse.                                *)
(***************************************************************************)
Digits == {"0", "1", "2", "3", "4", "5", "6", "7", "8", "9"}

DigitVal(c) ==
    CASE c = "0" -> 0 [] c = "1" -> 1 [] c = "2" -> 2 [] c = "3" -> 3 [] c = "4" -> 4
      [] c = "5" -> 5 [] c = "6" -> 6 [] c = "7" -> 7 [] c = "8" -> 8 [] c = "9" -> 9

SignedTypes == {"i8", "i32", "i64"}
UnsignedTypes == {"u8", "u16", "u32", "u64"}
IntTypes == SignedTypes \cup UnsignedTypes
FloatTypes == {"f32", "f64"}

\* The 8 and 16 bit targets keep their range.  The wider targets hold every
\* number the checked texts carry (at most four digits).
U8Max == 255
I8Max == 127
I8Min == -128
U16Max == 65535

Fits(ty, v) ==
    CASE ty = "u8" -> v >= 0 /\ v <= U8Max
      [] ty = "i8" -> v >= I8Min /\ v <= I8Max
      [] ty = "u16" -> v >= 0 /\ v <= U16Max
      [] OTHER -> TRUE

\* The digit loop of from_str_radix: checked_mul by 10, then checked_add (or
\* checked_sub for a negative number) of the digit.
RECURSIVE IntDigits(_, _, _, _, _)
IntDigits(ty, s, i, acc, positive) ==
    IF i > Len(s) THEN Ok(acc)
    ELSE IF s[i] \notin Digits THEN Err(ErrorOf(MsgParseInt("InvalidDigit")))
    ELSE LET next == IF positive THEN acc * 10 + DigitVal(s[i])
                     ELSE acc * 10 - DigitVal(s[i])
         IN  IF Fits(ty, next) THEN IntDigits(ty, s, i + 1, next, positive)
             ELSE Err(ErrorOf(MsgParseInt(IF positive THEN "PosOverflow" ELSE "NegOverflow")))

IntFromStr(ty, s) ==
    IF Len(s) = 0 THEN Err(ErrorOf(MsgParseInt("Empty")))
    ELSE LET signed == s[1] = "+" \/ (s[1] = "-" /\ ty \in SignedTypes)
             digits == IF signed THEN Tail(s) ELSE s
         IN  IF Len(digits) = 0 THEN Err(ErrorOf(MsgParseInt("InvalidDigit")))
             ELSE IntDigits(ty, digits, 1, 0, s[1] # "-")

\* Decimal literals: an optional sign, digits, an optional point and digits,
\* with a digit on at least one side of the point.  The value is kept as the
\* sign, the digits read as one integer, and the count of digits after the
\* point.  Exponents and the inf / nan literals are outside the checked texts.
RECURSIVE FloatDigits(_, _, _, _, _)
FloatDigits(s, i, mant, frac, seen) ==
    IF i > Len(s) THEN
        IF mant = -1 THEN Err(ErrorOf(MsgParseFloat("Invalid")))
        ELSE Ok([mant |-> mant, frac |-> frac])
    ELSE IF s[i] = "." THEN
        IF seen THEN Err(ErrorOf(MsgParseFloat("Invalid")))
        ELSE FloatDigits(s, i + 1, mant, 0, TRUE)
    ELSE IF s[i] \in Digits THEN
        FloatDigits(s, i + 1, (IF mant = -1 THEN 0 ELSE mant) * 10 + DigitVal(s[i]),
                    IF seen THEN frac + 1 ELSE 0, seen)
    ELSE Err(ErrorOf(MsgParseFloat("Invalid")))

FloatFromStr(s) ==
    IF Len(s) = 0 THEN Err(ErrorOf(MsgParseFloat("Empty")))
    ELSE LET signed == s[1] \in {"+", "-"}
             r == FloatDigits(IF signed THEN Tail(s) ELSE s, 1, -1, 0, FALSE)
         IN  IF IsOk(r) THEN Ok([neg |-> s[1] = "-", mant |-> r.val.mant, frac |-> r.val.frac])
             ELSE r

SeasonFromStr(s) ==
    CASE s = <<"s", "p", "r", "i", "n", "g">> -> Ok("Spring")
      [] s = <<"s", "u", "m", "m", "e", "r">> -> Ok("Summer")
      [] s = <<"a", "u", "t", "u", "m", "n">> -> Ok("Autumn")
      [] s = <<"w", "i", "n", "t", "e", "r">> -> Ok("Winter")
      [] OTHER -> Err(ErrorOf(MsgSeason(s)))

FromStr(ty, s) ==
    CASE ty = "Season" -> SeasonFromStr(s)
      [] ty \in IntTypes -> IntFromStr(ty, s)
      [] ty \in FloatTypes -> FloatFromStr(s)

(***************************************************************************)
(* Scalar accessors.                                                       *)
(***************************************************************************)
get(v, name) ==
    IF name \in DOMAIN v THEN Ok(v[name]) ELSE Err(ErrorOf(MsgMissing(name)))

\* A lookup that reports an absent field as one without content.
TextOfNoPresenceCheck(v, name) ==
    IF name \in DOMAIN v /\ IsSome(text(v[name])) THEN Ok(Unwrap(text(v[name])))
    ELSE Err(ErrorOf(MsgNoContent(name)))

\* get(value, name)?.text().with_context(...): the text of a present field.
TextOf(v, name) ==
    LET g == get(v, name)
    IN  IF ~IsOk(g) THEN g
        ELSE IF IsSome(text(g.val)) THEN Ok(Unwrap(text(g.val)))
        ELSE Err(ErrorOf(MsgNoContent(name)))

get_string(v, name) == TextOf(v, name)

\* A comparison that ignores the case of the first letter.
get_bool_lenient(v, name) ==
    LET t == TextOf(v, name)
    IN  IF IsOk(t) THEN Ok(t.val \in {<<"t", "r", "u", "e">>, <<"T", "r", "u", "e">>}) ELSE t

get_bool(v, name) ==
    LET t == TextOf(v, name)
    IN  IF IsOk(t) THEN Ok(t.val = <<"t", "r", "u", "e">>) ELSE t

\* A parse that returns the failure of FromStr without its context.
parse_without_context(ty, v, name) ==
    LET t == TextOf(v, name)
    IN  IF ~IsOk(t) THEN t ELSE FromStr(ty, t.val)

parse(ty, v, name) ==
    LET t == TextOf(v, name)
    IN  IF ~IsOk(t) THEN t
        ELSE LET p == FromStr(ty, t.val)
             IN  IF IsOk(p) THEN p
                 ELSE Err(WithContext(MsgInvalid(t.val, name), p.err))

(***************************************************************************)
(* Record shapes: the field initialisers of each try_from, in the order    *)
(* the struct literal lists them (unit fields are left out).               *)
(***************************************************************************)
Field(name, op, ty, tag) == [name |-> name, op |-> op, ty |-> ty, tag |-> tag]
Str(name) == Field(name, "get_string", "String", "")
Bool(name) == Field(name, "get_bool", "bool", "")
Parse(name, ty) == Field(name, "parse", ty, "")
Rec(name, ty) == Field(name, "try_into", ty, "")
IntList(name) == Field(name, "get_int_list", "u64", "int")
StrList(name) == Field(name, "get_string_list", "String", "string")
PolyList(name, tag, ty) == Field(name, "try_into_list", ty, tag)
\* value[name].first_element_child().unwrap().text().unwrap().parse()?
Indexed(name, ty) == Field(name, "index", ty, "")

SaveGameShape ==
    << Rec("player", "Player"), Parse("currentSeason", "Season"), Str("samBandName"),
       Str("elliottBookName"), StrList("worldStateIDs"), Parse("lostBooksFound", "u64"),
       Parse("dayOfMonth", "u8"), Parse("year", "u32"), Parse("farmerWallpaper", "u64"),
       Parse("FarmerFloor", "u64"), Parse("currentWallpaper", "u64"),
       Parse("currentFloor", "u64"), Parse("currentSongIndex", "u64"),
       Rec("incubatingEgg", "Position"), Parse("chanceToRainTomorrow", "f64"),
       Parse("dailyLuck", "f64"), Str("uniqueIDForThisGame"), Bool("weddingToday"),
       Bool("isRaining"), Bool("isDebrisWeather"), Bool("shippingTax"), Bool("bloomDay"),
       Bool("isLightning"), Bool("isSnowing"), Bool("shouldSpawnMonsters"),
       Bool("hasApplied1_3_UpdateChanges"), Bool("hasApplied1_4_UpdateChanges"),
       Parse("musicVolume", "f64"), Parse("soundVolume", "f64"), IntList("cropsOfTheWeek"),
       Parse("highestPlayerLimit", "u8"), Parse("moveBuildingPermissionMode", "u64"),
       Parse("latestID", "i64"), Parse("mine_lowestLevelReached", "u8"),
       Parse("minecartHighScore", "u64"), Parse("weatherForTomorrow", "u64"),
       Parse("whichFarm", "u8"), Parse("lastAppliedSaveFix", "u64"), Str("gameVersion") >>

PlayerShape ==
    << Str("name"), Bool("isEmoting"), Bool("isCharging"), Bool("isGlowing"),
       Bool("coloredBorder"), Bool("flip"), Bool("drawOnTop"), Bool("faceTowardFarmer"),
       Bool("ignoreMovementAnimation"), Bool("faceAwayFromFarmer"), Indexed("scale", "f32"),
       Parse("timeBeforeAIMovementAgain", "u64"), Parse("glowingTransparency", "f64"),
       Parse("glowRate", "f64"), Bool("willDestroyObjectsUnderfoot"),
       Rec("Position", "Position"), Parse("Speed", "u64"), Parse("FacingDirection", "u64"),
       Bool("IsEmoting"), Parse("CurrentEmote", "u64"), Parse("Scale", "f64"),
       IntList("professions"), IntList("experiencePoints"), PolyList("items", "Item", "Item"),
       IntList("dialogueQuestionsAnswered"), IntList("eventsSeen"), StrList("songsHeard"),
       IntList("achievements"), IntList("specialItems"), IntList("specialBigCraftables"),
       StrList("mailReceived"), StrList("mailbox"), Indexed("timeWentToBed", "u64"),
       Str("farmName"), Str("favoriteThing"), Bool("slotCanHost"), Bool("catPerson"),
       Parse("whichPetBreed", "u64"), Bool("acceptedDailyQuest"),
       Rec("mostRecentBed", "Position"), Parse("shirt", "i64"), Parse("hair", "u64"),
       Parse("skin", "u64"), Parse("shoes", "i64"), Parse("accessory", "i64"),
       Parse("facialHair", "i64"), Parse("pants", "i64"), Rec("hairstyleColor", "Color"),
       Rec("pantsColor", "Color"), Rec("newEyeColor", "Color"),
       Rec("shirtItem", "ClothingItem"), Rec("pantsItem", "ClothingItem"),
       Bool("divorceTonight"), Bool("changeWalletTypeTonight"), Parse("woodPieces", "u64"),
       Parse("stonePieces", "u64"), Parse("copperPieces", "u64"), Parse("ironPieces", "u64"),
       Parse("coalPieces", "u64"), Parse("goldPieces", "u64"), Parse("iridiumPieces", "u64"),
       Parse("quartzPieces", "u64"), Str("gameVersion"), Parse("caveChoice", "u8"),
       Parse("feed", "u64"), Parse("farmingLevel", "u8"), Parse("miningLevel", "u8"),
       Parse("combatLevel", "u8"), Parse("foragingLevel", "u8"), Parse("fishingLevel", "u8"),
       Parse("luckLevel", "u8"), Parse("newSkillPointsToSpend", "u8"),
       Parse("addedFarmingLevel", "u8"), Parse("addedMiningLevel", "u8"),
       Parse("addedCombatLevel", "u8"), Parse("addedForagingLevel", "u8"),
       Parse("addedFishingLevel", "u8"), Parse("addedLuckLevel", "u8"),
       Parse("maxStamina", "u32"), Parse("maxItems", "u32"), Parse("lastSeenMovieWeek", "i32"),
       Parse("resilience", "u64"), Parse("attack", "u64"), Parse("immunity", "u64"),
       Parse("attackIncreaseModifier", "u64"), Parse("knockbackModifier", "u64"),
       Parse("weaponSpeedModifier", "u64"), Parse("critChanceModifier", "u64"),
       Parse("critPowerModifier", "u64"), Parse("weaponPrecisionModifier", "u64"),
       Parse("clubCoins", "u64"), Parse("trashCanLevel", "u8"),
       Parse("daysLeftForToolUpgrade", "u8"), Parse("houseUpgradeLevel", "u8"),
       Parse("daysUntilHouseUpgrade", "i8"), Parse("coopUpgradeLevel", "u8"),
       Parse("barnUpgradeLevel", "u8"), Bool("hasGreenhouse"), Bool("hasUnlockedSkullDoor"),
       Bool("hasDarkTalisman"), Bool("hasMagicInk"), Bool("showChestColorPicker"),
       Bool("hasMagnifyingGlass"), Bool("hasWateringCanEnchantment"),
       Parse("magneticRadius", "u16"), Parse("temporaryInvincibilityTimer", "u64"),
       Parse("health", "u32"), Parse("maxHealth", "u32"), Parse("difficultyModifier", "i32"),
       Bool("isMale"), Bool("hasBusTicket"), Bool("stardewHero"), Bool("hasClubCard"),
       Bool("hasSpecialCharm"), Parse("dayOfMonthForSaveGame", "u8"),
       Parse("seasonForSaveGame", "u8"), Parse("yearForSaveGame", "u32"),
       Parse("overallsColor", "u32"), Parse("shirtColor", "u32"), Parse("skinColor", "u32"),
       Parse("hairColor", "u32"), Parse("eyeColor", "u32"), Parse("saveTime", "u64"),
       Bool("isCustomized"), Str("homeLocation"), Parse("daysMarried", "u64"),
       Parse("movementMultiplier", "f64"), Parse("theaterBuildDate", "i64"),
       Parse("deepestMineLevel", "u8"), Parse("stamina", "u32"),
       Parse("totalMoneyEarned", "u64"), Parse("millisecondsPlayed", "u64"),
       Bool("hasRustyKey"), Bool("hasSkullKey"), Bool("canUnderstandDwarves"),
       Bool("useSeparateWallets"), Parse("timesReachedMineBottom", "u64"),
       Str("UniqueMultiplayerID"), Parse("money", "u64") >>

PositionShape ==
    << Parse("X", "f64"), Parse("Y", "f64") >>

ColorShape ==
    << Parse("R", "u8"), Parse("G", "u8"), Parse("B", "u8"), Parse("A", "u8"),
       Parse("PackedValue", "u32") >>

ClothingItemShape ==
    << Bool("isLostItem"), Parse("category", "i64"), Bool("hasBeenInInventory"), Str("name"),
       Parse("parentSheetIndex", "u64"), Bool("specialItem"), Parse("SpecialVariable", "i64"),
       Str("DisplayName"), Str("Name"), Parse("Stack", "u64"), Parse("price", "u64"),
       Parse("indexInTileSheet", "u64"), Parse("indexInTileSheetFemale", "i64"),
       Parse("clothesType", "u64"), Bool("dyeable"), Rec("clothesColor", "Color"),
       Bool("isPrismatic"), Parse("Price", "u64") >>

ItemShape ==
    << Bool("isLostItem"), Parse("category", "i64"), Bool("hasBeenInInventory"), Str("name"),
       Bool("specialItem"), Parse("SpecialVariable", "i64"), Str("DisplayName"), Str("Name"),
       Parse("Stack", "u64") >>

ShapeOf(ty) ==
    CASE ty = "SaveGame" -> SaveGameShape
      [] ty = "Player" -> PlayerShape
      [] ty = "Position" -> PositionShape
      [] ty = "Color" -> ColorShape
      [] ty = "ClothingItem" -> ClothingItemShape
      [] ty = "Item" -> ItemShape

(***************************************************************************)
(* List and record materializers.                                          *)
(***************************************************************************)
\* The closures handed to get_list as its transform.
ParseU64(s) == IntFromStr("u64", s)
ToOwned(s) == Ok(s)

Transform(transform, s) ==
    CASE transform = "parse" -> ParseU64(s)
      [] transform = "to_owned" -> ToOwned(s)

\* Iterator::map(f).collect::<Result<Vec<_>>>(): f is applied to the items in
\* order, and the first failure is the result.
get_list(v, name, tag, transform) ==
    LET g == get(v, name)
        RECURSIVE Items(_, _, _)
        Items(s, i, acc) ==
            IF i > Len(s) THEN Ok(acc)
            ELSE IF tag_name(s[i]) # tag THEN Err(ErrorOf(MsgTag(tag, tag_name(s[i]))))
            ELSE IF ~IsSome(text(s[i])) THEN Err(ErrorOf(MsgNoTagContent(tag)))
            ELSE LET r == Transform(transform, Unwrap(text(s[i])))
                 IN  IF IsOk(r) THEN Items(s, i + 1, Append(acc, r.val)) ELSE r
    IN  IF ~IsOk(g) THEN g ELSE Items(ElementChildren(g.val), 1, <<>>)

\* A list collected back to front.
get_int_list_reversed(v, name) ==
    LET r == get_list(v, name, "int", "parse")
    IN  IF IsOk(r) THEN Ok([i \in 1..Len(r.val) |-> r.val[Len(r.val) + 1 - i]]) ELSE r

get_int_list(v, name) == get_list(v, name, "int", "parse")

get_string_list_with_tag(v, name, tag) == get_list(v, name, tag, "to_owned")

get_string_list(v, name) == get_string_list_with_tag(v, name, "string")

\* A filter that keeps every element.
NotNilKeepingAll(c) == is_element(c)

NotNilAnyValue(c) == is_element(c) /\ ~IsSome(attribute(c, "nil"))

\* The filter of try_into_list: an element whose nil attribute is not "true".
NotNil(c) ==
    is_element(c)
    /\ ~(IF IsSome(attribute(c, "nil")) THEN Unwrap(attribute(c, "nil")) = "true" ELSE FALSE)

\* Player::try_from reads scale and timeWentToBed without the accessors:
\* indexing the map and unwrapping an Option abort the program.
index_unwrap_parse(ty, v, name) ==
    IF name \notin DOMAIN v THEN Panic("index: key not found")
    ELSE IF ~IsSome(first_element_child(v[name])) THEN Panic("unwrap on None")
    ELSE IF ~IsSome(text(Unwrap(first_element_child(v[name])))) THEN Panic("unwrap on None")
    ELSE FromStr(ty, Unwrap(text(Unwrap(first_element_child(v[name])))))

RECURSIVE TryFrom(_, _)

try_into(ty, v, name) ==
    LET g == get(v, name)
    IN  IF ~IsOk(g) THEN g ELSE TryFrom(ty, FieldMap(g.val))

VariantTryFromRequiringType(family, ty, v) ==
    IF IsSome(ty) THEN TryFrom(family, v) ELSE Err(ErrorOf(MsgMissing("type")))

\* Item::try_from takes the discriminator and does not read it.
VariantTryFrom(family, ty, v) == TryFrom(family, v)

try_into_list(family, v, name, tag) ==
    LET g == get(v, name)
        RECURSIVE Items(_, _, _)
        Items(s, i, acc) ==
            IF i > Len(s) THEN Ok(acc)
            ELSE IF tag_name(s[i]) # tag THEN Err(ErrorOf(MsgTag(tag, tag_name(s[i]))))
            ELSE LET r == VariantTryFrom(family, attribute(s[i], "type"), FieldMap(s[i]))
                 IN  IF IsOk(r) THEN Items(s, i + 1, Append(acc, r.val)) ELSE r
    IN  IF ~IsOk(g) THEN g ELSE Items(SelectSeq(g.val.children, NotNil), 1, <<>>)

DecodeField(f, v) ==
    CASE f.op = "get_string" -> get_string(v, f.name)
      [] f.op = "get_bool" -> get_bool(v, f.name)
      [] f.op = "parse" -> parse(f.ty, v, f.name)
      [] f.op = "try_into" -> try_into(f.ty, v, f.name)
      [] f.op = "get_int_list" -> get_int_list(v, f.name)
      [] f.op = "get_string_list" -> get_string_list(v, f.name)
      [] f.op = "try_into_list" -> try_into_list(f.ty, v, f.name, f.tag)
      [] f.op = "index" -> index_unwrap_parse(f.ty, v, f.name)

\* Ok(Self { a: ...?, b: ...?, ... }): the initialisers run in the order of
\* the struct literal and the first one that fails ends the function with its
\* failure; otherwise the record holds the value of every field.
Fields(shape, v) ==
    LET r == [i \in 1..Len(shape) |-> DecodeField(shape[i], v)]
        failed == {i \in 1..Len(shape) : ~IsOk(r[i])}
    IN  IF failed = {} THEN Ok([i \in 1..Len(shape) |-> r[i].val])
        ELSE r[CHOOSE i \in failed : \A j \in failed : i <= j]

TryFrom(ty, v) == Fields(ShapeOf(ty), v)

\* A file is the text handed to load: well formed, with a root element, or
\* not, and then Document::parse fails.
DocumentParse(file) ==
    IF file.well_formed THEN Ok(file.root_element)
    ELSE Err(ErrorOf([fmt |-> "roxmltree::Error"]))

load(file) ==
    LET doc == DocumentParse(file)
    IN  IF ~IsOk(doc) THEN doc ELSE TryFrom("SaveGame", FieldMap(doc.val))

(***************************************************************************)
(* Input families.  Texts the accessors are applied to:                    *)
(***************************************************************************)
T_true == <<"t", "r", "u", "e">>
T_True == <<"T", "r", "u", "e">>
T_false == <<"f", "a", "l", "s", "e">>
T_empty == <<>>
T_1 == <<"1">>
T_2 == <<"2">>
T_7 == <<"7">>
T_42 == <<"4", "2">>
T_300 == <<"3", "0", "0">>
T_neg5 == <<"-", "5">>
T_1p5 == <<"1", ".", "5">>
T_abc == <<"a", "b", "c">>
T_xyz == <<"x", "y", "z">>
T_spring == <<"s", "p", "r", "i", "n", "g">>
T_Spring == <<"S", "p", "r", "i", "n", "g">>
T_space == <<" ">>

Texts == {T_true, T_True, T_false, T_empty, T_1, T_42, T_300, T_neg5, T_1p5, T_abc,
          T_spring, T_Spring}

Leaf(tag, t) == Element(tag, NoAttrs, <<TextNode(t)>>)
Bare(tag) == Element(tag, NoAttrs, <<>>)

\* Sequences over S of length at most n.
SeqsUpTo(S, n) == UNION {[1..k -> S] : k \in 0..n}

\* Children of a scope holding scalar fields X and Y: every text under X, an
\* element without text, an element whose text follows a comment, same-tag
\* siblings, and nodes that are not elements.
ScalarNodes ==
    {Leaf("X", t) : t \in Texts}
    \cup {Bare("X"), Element("X", NoAttrs, <<CommentNode(T_abc), TextNode(T_42)>>),
          Leaf("Y", T_42), Bare("Y"), TextNode(T_space)}

ScalarRoots == {Element("r", NoAttrs, kids) : kids \in SeqsUpTo(ScalarNodes, MaxChildren)}

\* A scope holding a Position record as its field.
NestedRoots ==
    {Element("r", NoAttrs, <<Element("Position", NoAttrs, kids)>>) :
        kids \in SeqsUpTo(ScalarNodes, MaxChildren)}

\* A scope holding a list container.
ListNodes ==
    {Leaf("int", T_1), Leaf("int", T_2), Leaf("int", T_abc), Bare("int"),
     Leaf("string", T_xyz), CommentNode(T_abc),
     Element("int", [a \in {"nil"} |-> "true"], <<>>),
     Element("int", [a \in {"nil"} |-> "true"], <<TextNode(T_7)>>)}

ListRoots ==
    {Element("r", NoAttrs, <<Element("list", NoAttrs, kids)>>) :
        kids \in SeqsUpTo(ListNodes, MaxListItems)}

(***************************************************************************)
(* Documents.  An element is built for every field of a shape; one field,  *)
(* named by its path from the root, can be changed: left out ("absent"),   *)
(* given no children ("empty"), given an element child without text        *)
(* ("hollow"), given a text no scalar target parses ("bad"), or given      *)
(* another good text ("alt").                                              *)
(***************************************************************************)
NoChange == [path |-> <<>>, kind |-> "none"]

\* A second field can be changed as well (path2, kind2).
KindAt(change, path) ==
    IF change.path = path THEN change.kind
    ELSE IF "path2" \in DOMAIN change /\ change.path2 = path THEN change.kind2
    ELSE "none"

GoodText(f) ==
    CASE f.op = "get_string" -> T_abc
      [] f.op = "get_bool" -> T_true
      [] f.ty = "Season" -> T_spring
      [] f.ty \in FloatTypes -> T_1p5
      [] f.ty \in SignedTypes -> T_neg5
      [] OTHER -> T_42

AltText(f) == IF f.op = "get_string" THEN T_xyz ELSE T_7

ItemAttrs(nil, ty) ==
    [a \in (IF nil = "" THEN {} ELSE {"nil"}) \cup (IF ty = "" THEN {} ELSE {"type"}) |->
        IF a = "nil" THEN nil ELSE ty]

RECURSIVE Children(_, _, _)

GoodNode(f, path, change) ==
    CASE f.op \in {"get_string", "get_bool", "parse"} ->
            Leaf(f.name, IF KindAt(change, path) = "alt" THEN AltText(f)
                         ELSE GoodText(f))
      [] f.op = "index" -> Element(f.name, NoAttrs, <<Leaf(f.ty, GoodText(f))>>)
      [] f.op = "get_int_list" -> Element(f.name, NoAttrs, <<Leaf("int", T_1), Leaf("int", T_2)>>)
      [] f.op = "get_string_list" -> Element(f.name, NoAttrs, <<Leaf("string", T_abc)>>)
      [] f.op = "try_into_list" ->
            Element(f.name, NoAttrs,
                    <<Element(f.tag, ItemAttrs("", "Object"), Children(f.ty, <<>>, NoChange)),
                      Element(f.tag, ItemAttrs("true", ""), <<>>)>>)
      [] f.op = "try_into" -> Element(f.name, NoAttrs, Children(f.ty, path, change))

Absent == [kind |-> "absent"]
Present(n) == n.kind # "absent"

ChangedNode(f, path, change) ==
    CASE KindAt(change, path) \in {"none", "alt"} -> GoodNode(f, path, change)
      [] KindAt(change, path) = "absent" -> Absent
      [] KindAt(change, path) = "empty" -> Bare(f.name)
      [] KindAt(change, path) = "hollow" -> Element(f.name, NoAttrs, <<Bare("x")>>)
      [] KindAt(change, path) = "bad" ->
            IF f.op = "index" THEN Element(f.name, NoAttrs, <<Leaf(f.ty, T_abc)>>)
            ELSE Leaf(f.name, T_abc)

Children(ty, prefix, change) ==
    SelectSeq([i \in 1..Len(ShapeOf(ty)) |->
                  ChangedNode(ShapeOf(ty)[i], Append(prefix, ShapeOf(ty)[i].name), change)],
              Present)

\* The paths of the fields of a record type, nested records included.
RECURSIVE PathsUnder(_, _)
PathsUnder(ty, prefix) ==
    UNION {{Append(prefix, ShapeOf(ty)[i].name)}
           \cup (IF ShapeOf(ty)[i].op = "try_into"
                 THEN PathsUnder(ShapeOf(ty)[i].ty, Append(prefix, ShapeOf(ty)[i].name))
                 ELSE {}) : i \in 1..Len(ShapeOf(ty))}

Paths(ty) == PathsUnder(ty, <<>>)

ChangeKinds == {"absent", "empty", "hollow", "bad"}

\* Items of a polymorphic list: with and without discriminator, nil markers
\* of several spellings, a foreign tag, an item whose decode fails, and a
\* node that is no element.
Item(tag, nil, ty, change) == Element(tag, ItemAttrs(nil, ty), Children("Item", <<>>, change))

ItemNodes ==
    {Item("Item", "", "", NoChange),
     Item("Item", "", "Object", [path |-> <<"name">>, kind |-> "alt"]),
     Item("Item", "", "Unknown", [path |-> <<"Stack">>, kind |-> "alt"]),
     Item("Item", "true", "", NoChange),
     Element("Other", ItemAttrs("true", ""), <<>>),
     Item("Other", "", "", NoChange),
     Item("Item", "false", "", [path |-> <<"name">>, kind |-> "absent"]),
     Item("Item", "True", "", [path |-> <<"DisplayName">>, kind |-> "alt"]),
     Item("Other", "1", "", NoChange),
     CommentNode(T_abc)}

ItemsRoots ==
    {Element("r", NoAttrs, <<Element("items", NoAttrs, kids)>>) :
        kids \in SeqsUpTo(ItemNodes, MaxPolyItems)}

Document(change) ==
    [well_formed |-> TRUE,
     root_element |-> Element("SaveGame", NoAttrs, Children("SaveGame", <<>>, change))]

Malformed == [well_formed |-> FALSE, root_element |-> Bare("")]

Files ==
    {Document(NoChange), Malformed}
    \cup {Document([path |-> p, kind |-> k]) : p \in Paths("SaveGame"), k \in ChangeKinds}

Families == {"scalar", "nested", "list", "items", "file"}

Inputs(f) ==
    CASE f = "scalar" -> ScalarRoots
      [] f = "nested" -> NestedRoots
      [] f = "list" -> ListRoots
      [] f = "items" -> ItemsRoots
      [] f = "file" -> Files

(***************************************************************************)
(* The state machine.  An input is drawn; the field map of a scope is      *)
(* built from its element; one accessor, materializer or load is applied.  *)
(***************************************************************************)
Call(op, name, ty, tag) == [op |-> op, name |-> name, ty |-> ty, tag |-> tag]
NoCall == Call("none", "", "", "")
NoRet == [kind |-> "none"]

NoMsg == [kind |-> "none"]

\* App::create.
create == [upload_task |-> None, content |-> None]

\* App::create, and no load under way.
Idle ==
    /\ frames = <<>>
    /\ examined = <<>>
    /\ app = create
    /\ handled = NoMsg
    /\ panicked = FALSE

ScalarNames == {"X", "Y"}
ParseTypes == {"u64", "u8", "i64", "f64", "Season"}

Init ==
    /\ pc = "start"
    /\ fam \in Families
    /\ input \in Inputs(fam)
    /\ value = EmptyMap
    /\ call = NoCall
    /\ ret = NoRet
    /\ Idle

\* try_into 50-54, try_into_list 82-86, load 786-790: the map of a scope.
Collect ==
    /\ pc = "start"
    /\ fam # "file"
    /\ value' = FieldMap(input)
    /\ pc' = "scope"
    /\ UNCHANGED <<fam, input, call, ret, stepVars, appVars>>

ReturnDroppingMap(c, r) ==
    /\ call' = c
    /\ ret' = r
    /\ pc' = "done"
    /\ value' = EmptyMap
    /\ UNCHANGED <<fam, input, stepVars, appVars>>

Return(c, r) ==
    /\ call' = c
    /\ ret' = r
    /\ pc' = "done"
    /\ UNCHANGED <<fam, input, value, stepVars, appVars>>

Get ==
    /\ pc = "scope" /\ fam = "scalar"
    /\ \E name \in ScalarNames : Return(Call("get", name, "", ""), get(value, name))

GetString ==
    /\ pc = "scope" /\ fam = "scalar"
    /\ \E name \in ScalarNames :
          Return(Call("get_string", name, "", ""), get_string(value, name))

GetBool ==
    /\ pc = "scope" /\ fam = "scalar"
    /\ \E name \in ScalarNames : Return(Call("get_bool", name, "", ""), get_bool(value, name))

ParseCall ==
    /\ pc = "scope" /\ fam = "scalar"
    /\ \E name \in ScalarNames, ty \in ParseTypes :
          Return(Call("parse", name, ty, ""), parse(ty, value, name))

TryInto ==
    /\ pc = "scope" /\ fam = "nested"
    /\ \E name \in {"Position", "X"} :
          Return(Call("try_into", name, "Position", ""), try_into("Position", value, name))

GetIntList ==
    /\ pc = "scope" /\ fam = "list"
    /\ \E name \in {"list", "X"} :
          Return(Call("get_int_list", name, "u64", "int"), get_int_list(value, name))

GetStringList ==
    /\ pc = "scope" /\ fam = "list"
    /\ \E name \in {"list", "X"} :
          Return(Call("get_string_list", name, "String", "string"),
                 get_string_list(value, name))

TryIntoList ==
    /\ pc = "scope" /\ fam = "items"
    /\ \E name \in {"items", "X"} :
          Return(Call("try_into_list", name, "Item", "Item"),
                 try_into_list("Item", value, name, "Item"))

Load ==
    /\ pc = "start" /\ fam = "file"
    /\ Return(Call("load", "", "SaveGame", ""), load(input))

Next ==
    \/ Collect
    \/ Get
    \/ GetString
    \/ GetBool
    \/ ParseCall
    \/ TryInto
    \/ GetIntList
    \/ GetStringList
    \/ TryIntoList
    \/ Load

Spec == Init /\ [][Next]_vars

(***************************************************************************)
(* load taken one field at a time.  A frame is one record decode under way *)
(* (SaveGame::try_from and the try_from it has entered): its field map,    *)
(* the index of the next initialiser of its struct literal, and the values *)
(* of the initialisers that have run.                                      *)
(***************************************************************************)
\* The fields changed together in the documents decoded one field at a time.
StepPaths ==
    {<<"player", "name">>, <<"player", "scale">>, <<"player", "Position", "X">>,
     <<"player", "Position">>, <<"player", "lastSeenMovieWeek">>, <<"currentSeason">>,
     <<"incubatingEgg", "Y">>, <<"gameVersion">>}

StepFiles ==
    {Document(NoChange), Malformed}
    \cup {Document([path |-> p, kind |-> k]) : p \in StepPaths, k \in {"absent", "bad"}}
    \cup {Document([path |-> p, kind |-> k, path2 |-> q, kind2 |-> l]) :
             p \in StepPaths, q \in StepPaths, k \in {"absent", "bad"},
             l \in {"absent", "empty"}}

Frame(ty, map, prefix) ==
    [ty |-> ty, map |-> map, idx |-> 1, acc |-> <<>>, prefix |-> prefix]

Top == frames[Len(frames)]

NextFieldBackwards(fr) == ShapeOf(fr.ty)[Len(ShapeOf(fr.ty)) + 1 - fr.idx]

\* The initialisers of a struct literal run in the order they are written.
NextField(fr) == ShapeOf(fr.ty)[fr.idx]

\* The value of an initialiser joins the record under construction.
Advance(fs, v) ==
    [fs EXCEPT ![Len(fs)].acc = Append(@, v), ![Len(fs)].idx = @ + 1]

\* The ? of an initialiser: every try_from under way returns the failure.
Fail(r) ==
    /\ ret' = r
    /\ pc' = "done"
    /\ frames' = <<>>

InitSteps ==
    /\ pc = "start"
    /\ fam = "file"
    /\ input \in StepFiles
    /\ value = EmptyMap
    /\ call = NoCall
    /\ ret = NoRet
    /\ Idle

\* load 783-790: the document is parsed and the root's field map built.
ParseDocument ==
    /\ pc = "start" /\ fam = "file"
    /\ call' = Call("load", "", "SaveGame", "")
    /\ IF IsOk(DocumentParse(input))
       THEN /\ frames' = <<Frame("SaveGame", FieldMap(DocumentParse(input).val), <<>>)>>
            /\ pc' = "decoding"
            /\ ret' = NoRet
       ELSE Fail(DocumentParse(input))
    /\ UNCHANGED <<fam, input, value, examined, appVars>>

\* The path of the next field of a frame, and the outcome of its
\* initialiser: a nested record is looked up (try_into 49), any other field
\* is decoded at once.
FieldPath(fr) == Append(fr.prefix, NextField(fr).name)

FieldResult(fr) ==
    IF NextField(fr).op = "try_into" THEN get(fr.map, NextField(fr).name)
    ELSE DecodeField(NextField(fr), fr.map)

\* A nested record enters its try_from over the map of its element
\* (try_into 50-56); the value of any other field joins the record.
Entered(fs, v) ==
    IF NextField(fs[Len(fs)]).op = "try_into"
    THEN Append(fs, Frame(NextField(fs[Len(fs)]).ty, FieldMap(v), FieldPath(fs[Len(fs)])))
    ELSE Advance(fs, v)

\* One initialiser of the record decode under way.
DecodeStep ==
    /\ pc = "decoding"
    /\ Top.idx <= Len(ShapeOf(Top.ty))
    /\ examined' = Append(examined, FieldPath(Top))
    /\ IF IsOk(FieldResult(Top))
       THEN /\ frames' = Entered(frames, FieldResult(Top).val)
            /\ UNCHANGED <<pc, ret>>
       ELSE Fail(FieldResult(Top))
    /\ UNCHANGED <<fam, input, value, call, appVars>>

\* Ok(Self { .. }): the record is the value of the field that entered it, or
\* the result of load.
FinishRecord ==
    /\ pc = "decoding"
    /\ Top.idx > Len(ShapeOf(Top.ty))
    /\ IF Len(frames) = 1
       THEN /\ ret' = Ok(Top.acc)
            /\ pc' = "done"
            /\ frames' = <<>>
       ELSE /\ frames' = Advance(SubSeq(frames, 1, Len(frames) - 1), Top.acc)
            /\ UNCHANGED <<pc, ret>>
    /\ UNCHANGED <<fam, input, value, call, examined, appVars>>

NextSteps ==
    \/ ParseDocument
    \/ DecodeStep
    \/ FinishRecord

SpecSteps == InitSteps /\ [][NextSteps]_vars

(***************************************************************************)
(* The App component.  update handles one message: File starts reading the *)
(* chosen file, Loaded decodes the data read and keeps its rendering.  A   *)
(* panic ends the program: the handler stops where it is and no message is *)
(* handled afterwards.                                                     *)
(***************************************************************************)
decodeVars == <<pc, fam, input, value, call, ret>>

\* The data of a file: bytes that are the UTF-8 encoding of a text, or not.
FileData(utf8, file) == [utf8 |-> utf8, text |-> file]

AppFiles ==
    {FileData(TRUE, Document(NoChange)),
     FileData(TRUE, Malformed),
     FileData(TRUE, Document([path |-> <<"currentSeason">>, kind |-> "bad"])),
     FileData(TRUE, Document([path |-> <<"player", "name">>, kind |-> "absent"])),
     FileData(TRUE, Document([path |-> <<"player", "scale">>, kind |-> "absent"])),
     FileData(FALSE, Malformed)}

ReaderTask(file) == [reads |-> file]

\* str::from_utf8(&data.content).unwrap(), then stardew::load.
LoadData(data) ==
    IF data.utf8 THEN load(data.text) ELSE Panic("unwrap on Err(Utf8Error)")

\* format!("{:#?}", sg) of the record, format!("{:?}", e) of the error.
Render(r) ==
    IF IsOk(r) THEN [fmt |-> "{:#?}", of |-> r.val] ELSE [fmt |-> "{:?}", of |-> r.err]

InitApp ==
    /\ pc = "start"
    /\ fam = "file"
    /\ input = Malformed
    /\ value = EmptyMap
    /\ call = NoCall
    /\ ret = NoRet
    /\ Idle

\* Msg::File: read_file(..).unwrap() starts the read or panics.
UpdateFile ==
    /\ ~panicked
    /\ \E file \in AppFiles, started \in BOOLEAN :
          /\ handled' = [kind |-> "File", file |-> file]
          /\ IF started
             THEN /\ app' = [app EXCEPT !.upload_task = Some(ReaderTask(file))]
                  /\ UNCHANGED panicked
             ELSE /\ panicked' = TRUE
                  /\ UNCHANGED app
    /\ UNCHANGED <<decodeVars, stepVars>>

\* Msg::Loaded: the fields are assigned after load has returned.
UpdateLoaded ==
    /\ ~panicked
    /\ \E data \in AppFiles :
          /\ handled' = [kind |-> "Loaded", data |-> data]
          /\ IF IsPanic(LoadData(data))
             THEN /\ panicked' = TRUE
                  /\ UNCHANGED app
             ELSE /\ app' = [upload_task |-> None, content |-> Some(Render(LoadData(data)))]
                  /\ UNCHANGED panicked
    /\ UNCHANGED <<decodeVars, stepVars>>

NextApp ==
    \/ UpdateFile
    \/ UpdateLoaded

SpecApp == InitApp /\ [][NextApp]_vars

(***************************************************************************)
(* Properties.                                                             *)
(***************************************************************************)
Returned(ops) == pc = "done" /\ call.op \in ops

\* The field of the call is a key of the scope's map.
FieldPresent == call.name \in DOMAIN value

\* The error names the field n in one of the messages of its chain.
NamesField(e, n) == \E i \in DOMAIN e : "name" \in DOMAIN e[i] /\ e[i].name = n

\* The file of a load is the document with one field changed.
Loaded(path, kind) ==
    /\ Returned({"load"})
    /\ input = Document([path |-> path, kind |-> kind])

\* C1: when the decode of the record under a present field F fails, so that
\* the failure is that of an inner field G, the error names F as well as G;
\* at depth three, a document whose player.Position.X is absent, without
\* content or invalid yields an error naming player, Position and X.
C1_NestedFailureNamesEveryLevel ==
    /\ (Returned({"try_into"}) /\ FieldPresent /\ IsErr(ret)) =>
            /\ NamesField(ret.err, call.name)
            /\ \E i \in DOMAIN PositionShape : NamesField(ret.err, PositionShape[i].name)
    /\ \A kind \in {"absent", "empty", "bad"} :
            Loaded(<<"player", "Position", "X">>, kind) =>
                /\ IsErr(ret)
                /\ \A n \in {"player", "Position", "X"} : NamesField(ret.err, n)

\* C2: load of a well-formed document ends with a record holding every field
\* of SaveGame or with one error value, and in no other way.
C2_LoadReturnsRecordOrError ==
    (Returned({"load"}) /\ input.well_formed) =>
        \/ IsOk(ret) /\ Len(ret.val) = Len(SaveGameShape)
        \/ IsErr(ret) /\ Len(ret.err) > 0

\* The elements of the container of a list call that are not skipped as nil:
\* only try_into_list skips.
Considered ==
    SelectSeq(value[call.name].children,
              LAMBDA c : c.kind = "element"
                         /\ ~(/\ call.op = "try_into_list"
                              /\ "nil" \in DOMAIN c.attrs /\ c.attrs["nil"] = "true"))

\* C3: a polymorphic list holding a non-nil item whose type attribute is
\* "Unknown", a value no variant of Item carries, fails to decode, with an
\* error that identifies the value "Unknown".
C3_UnknownDiscriminatorRejected ==
    (/\ Returned({"try_into_list"}) /\ FieldPresent
     /\ \E i \in DOMAIN Considered :
            "type" \in DOMAIN Considered[i].attrs /\ Considered[i].attrs["type"] = "Unknown")
    => /\ IsErr(ret)
       /\ \E i \in DOMAIN ret.err :
              "discriminator" \in DOMAIN ret.err[i] /\ ret.err[i].discriminator = "Unknown"

\* The field of the call is present and has text content.
FieldHasText == FieldPresent /\ text(value[call.name]) # <<>>
FieldText == text(value[call.name])[1]

C5_ParseValueOrInvalidField ==
    (Returned({"parse"}) /\ FieldHasText) =>
        /\ IsOk(FromStr(call.ty, FieldText)) => ret = FromStr(call.ty, FieldText)
        /\ ~IsOk(FromStr(call.ty, FieldText)) =>
               /\ IsErr(ret)
               /\ ret.err[1] = [fmt |-> "invalid content {} in {} field",
                                 content |-> FieldText, name |-> call.name]
               /\ Tail(ret.err) = FromStr(call.ty, FieldText).err
               /\ Len(ret.err) > 1
        /\ (call.ty \in {"u64", "u8", "i64"} /\ FieldText = T_42) => ret = Ok(42)
        /\ (call.ty \in {"u64", "u8", "i64", "Season"} /\ FieldText \in {T_abc, T_Spring}) =>
               IsErr(ret) /\ ret.err[1].content = FieldText /\ ret.err[1].name = call.name
        /\ (call.ty = "Season" /\ FieldText = T_spring) => ret = Ok("Spring")
        /\ (call.ty = "u8" /\ FieldText = T_300) => IsErr(ret)

C5_Witness ==
    /\ Returned({"parse"}) /\ FieldHasText
    /\ call.ty = "u64" /\ FieldText = T_abc
    /\ ret = Err(<<[fmt |-> "invalid content {} in {} field", content |-> T_abc,
                     name |-> call.name],
                   [fmt |-> "ParseIntError", detail |-> "InvalidDigit"]>>)

\* C6: get, get_string, get_bool and parse fail with the missing-field error
\* of the name when the name is no key of the map, and (all but get) with the
\* no-content error of the name when it is a key whose element has no text;
\* get returns the element and get_string its text unchanged otherwise.
C6_PresenceBeforeContent ==
    Returned({"get", "get_string", "get_bool", "parse"}) =>
        /\ ~FieldPresent =>
               ret = Err(<<[fmt |-> "field {} is missing", name |-> call.name]>>)
        /\ (FieldPresent /\ ~FieldHasText /\ call.op # "get") =>
               ret = Err(<<[fmt |-> "field {} has not content", name |-> call.name]>>)
        /\ (FieldPresent /\ call.op = "get") => ret = Ok(value[call.name])
        /\ (FieldHasText /\ call.op = "get_string") => ret = Ok(FieldText)

C6_Witness ==
    /\ Returned({"get_string"})
    /\ FieldPresent /\ ~FieldHasText
    /\ ret = Err(<<[fmt |-> "field {} has not content", name |-> call.name]>>)

\* The element children of the container of a list call, in document order.
ItemElements == SelectSeq(value[call.name].children, LAMBDA c : c.kind = "element")

\* C7: get_list over a container whose element children all carry the
\* expected tag and a text the transform accepts returns one entry per child,
\* in document order, each the transform of the text of its child: the
\* children <int>1</int><int>2</int> give <<1, 2>>, and a container without
\* element children gives the empty sequence.
C7_ListOfEveryChildInOrder ==
    (/\ Returned({"get_int_list", "get_string_list"}) /\ FieldPresent
     /\ \A i \in DOMAIN ItemElements :
            /\ ItemElements[i].tag = call.tag
            /\ text(ItemElements[i]) # <<>>
            /\ call.op = "get_int_list" => IsOk(IntFromStr("u64", text(ItemElements[i])[1])))
    => /\ IsOk(ret)
       /\ Len(ret.val) = Len(ItemElements)
       /\ \A i \in DOMAIN ItemElements :
              ret.val[i] = IF call.op = "get_string_list" THEN text(ItemElements[i])[1]
                           ELSE IntFromStr("u64", text(ItemElements[i])[1]).val
       /\ (call.op = "get_int_list"
           /\ [i \in DOMAIN ItemElements |-> text(ItemElements[i])[1]] = <<T_1, T_2>>)
              => ret = Ok(<<1, 2>>)
       /\ Len(ItemElements) = 0 => ret = Ok(<<>>)

C7_Witness ==
    /\ Returned({"get_int_list"}) /\ FieldPresent
    /\ Len(value[call.name].children) > Len(ItemElements)
    /\ ret = Ok(<<1, 2>>)

\* A considered child of a list call decodes: in get_list it has a text that
\* the transform accepts, in try_into_list its fields decode.
ChildResult(c) ==
    IF call.op = "try_into_list" THEN TryFrom("Item", FieldMap(c))
    ELSE IF text(c) = <<>> THEN Err(<<[fmt |-> "no content in <{}> tag", tag |-> call.tag]>>)
    ELSE IF call.op = "get_int_list" THEN IntFromStr("u64", text(c)[1])
    ELSE Ok(text(c)[1])

Foreign == {i \in DOMAIN Considered : Considered[i].tag # call.tag}
FirstForeign == CHOOSE i \in Foreign : \A j \in Foreign : i <= j
FailedBefore(k) == {i \in 1..(k - 1) : ~IsOk(ChildResult(Considered[i]))}

ListCall == Returned({"get_int_list", "get_string_list", "try_into_list"}) /\ FieldPresent

\* C8 as claimed: a list whose considered children include one with a tag
\* other than the expected one fails with the tag mismatch of the first such
\* child.
C8_ForeignTagAlwaysTagMismatch ==
    (ListCall /\ Foreign # {}) =>
        ret = Err(<<[fmt |-> "tag name wasn't {} but {}", tag |-> call.tag,
                     found |-> Considered[FirstForeign].tag]>>)

\* C8 as amended: such a list fails, and returns no list; the failure is the
\* tag mismatch of the first child with a foreign tag when every considered
\* child before it decodes, and otherwise the failure of the first child
\* before it that does not decode.
C8_FirstFailureInDocumentOrder ==
    (ListCall /\ Foreign # {}) =>
        /\ IsErr(ret)
        /\ FailedBefore(FirstForeign) = {} =>
               ret = Err(<<[fmt |-> "tag name wasn't {} but {}", tag |-> call.tag,
                            found |-> Considered[FirstForeign].tag]>>)
        /\ FailedBefore(FirstForeign) # {} =>
               ret = ChildResult(Considered[CHOOSE i \in FailedBefore(FirstForeign) :
                                               \A j \in FailedBefore(FirstForeign) : i <= j])

C8_Witness ==
    /\ ListCall /\ call.op = "get_int_list"
    /\ Len(Considered) = 3 /\ Foreign # {} /\ FirstForeign = 2
    /\ ret = Err(<<[fmt |-> "tag name wasn't {} but {}", tag |-> "int", found |-> "string"]>>)

\* C9: in try_into_list a child whose nil attribute is "true" adds no entry
\* and no failure, whatever its tag and fields; when every other element
\* child carries the expected tag and decodes, the list holds their records
\* in document order, one per such child.
C9_NilItemsSkippedFirst ==
    (/\ Returned({"try_into_list"}) /\ FieldPresent
     /\ \A i \in DOMAIN Considered :
            Considered[i].tag = call.tag /\ IsOk(ChildResult(Considered[i])))
    => /\ IsOk(ret)
       /\ Len(ret.val) = Len(Considered)
       /\ \A i \in DOMAIN Considered : ret.val[i] = ChildResult(Considered[i]).val

C9_Witness ==
    /\ Returned({"try_into_list"}) /\ FieldPresent
    /\ \E i \in DOMAIN ItemElements :
           /\ ItemElements[i].tag # call.tag
           /\ "nil" \in DOMAIN ItemElements[i].attrs /\ ItemElements[i].attrs["nil"] = "true"
    /\ IsOk(ret) /\ Len(ret.val) = 2 /\ ret.val[1] # ret.val[2]
    /\ Len(ItemElements) = 3

\* The positions of the element children of the scope that carry the tag k.
Tagged(k) ==
    {i \in DOMAIN input.children :
        input.children[i].kind = "element" /\ input.children[i].tag = k}

\* C10: the field map of a scope has one entry for each tag among the element
\* children of its element and no other entry, and the entry of a tag is the
\* last element child in document order that carries it.
C10_FieldMapLastChildPerTag ==
    (pc # "start" /\ fam # "file") =>
        /\ DOMAIN value = {input.children[i].tag :
                               i \in {j \in DOMAIN input.children :
                                          input.children[j].kind = "element"}}
        /\ \A k \in DOMAIN value :
               value[k] = input.children[CHOOSE i \in Tagged(k) : \A j \in Tagged(k) : j <= i]
        /\ Cardinality(DOMAIN value) <= Len(input.children)

C10_Witness ==
    /\ pc = "scope" /\ fam = "scalar"
    /\ Len(input.children) = 2
    /\ Tagged("X") = {1, 2}
    /\ input.children[1] # input.children[2]
    /\ value["X"] = input.children[2]

\* C11: every failure an accessor originates names the field or container
\* it was called with: the failures of the scalar accessors, a missing
\* field in try_into, and in the list decoders a missing container, a tag
\* mismatch, an item without text and an item the transform rejects.
C11_OriginatedFailureNamesField ==
    /\ (Returned({"get", "get_string", "get_bool", "parse"}) /\ IsErr(ret)) =>
            NamesField(ret.err, call.name)
    /\ (Returned({"try_into"}) /\ ~FieldPresent) => NamesField(ret.err, call.name)
    /\ (Returned({"get_int_list", "get_string_list"}) /\ IsErr(ret)) =>
            NamesField(ret.err, call.name)
    /\ (Returned({"try_into_list"}) /\ IsErr(ret)
        /\ (FieldPresent => (Foreign # {} /\ FailedBefore(FirstForeign) = {}))) =>
            NamesField(ret.err, call.name)

\* C12: no step of a decode changes the parsed element tree, and the field
\* map of a scope is not changed once it has been built: every accessor and
\* materializer call, succeeding or failing, leaves both as they were.
C12_DecodeReadsOnly ==
    [][/\ input' = input
       /\ (pc # "start") => (value' = value)]_vars

\* A failing and a succeeding call have returned over a built field map.
C12_Witness ==
    /\ Returned({"get_int_list", "try_into_list", "parse", "try_into"})
    /\ IsErr(ret)
    /\ value = FieldMap(input)
    /\ value # EmptyMap

\* The considered items of a polymorphic list call all carry the expected
\* tag and no type attribute.
Untyped ==
    /\ Returned({"try_into_list"}) /\ FieldPresent
    /\ Considered # <<>>
    /\ \A i \in DOMAIN Considered :
          Considered[i].tag = call.tag /\ "type" \notin DOMAIN Considered[i].attrs

\* C14: an item of a polymorphic list that is not nil, has the expected tag
\* and no type attribute is decoded as an Item: the list succeeds exactly when
\* the fields of Item decode from every such item, holding those records in
\* order, and otherwise fails with the failure of the first item whose fields
\* do not decode, never with one about the absent attribute.
C14_AbsentDiscriminatorDecodesAsItem ==
    Untyped =>
        LET r == [i \in DOMAIN Considered |-> Fields(ItemShape, FieldMap(Considered[i]))]
            failed == {i \in DOMAIN Considered : ~IsOk(r[i])}
        IN  /\ IsOk(ret) <=> failed = {}
            /\ IsOk(ret) => ret.val = [i \in DOMAIN Considered |-> r[i].val]
            /\ failed # {} => ret = r[CHOOSE i \in failed : \A j \in failed : i <= j]

C14_Witness ==
    /\ Untyped
    /\ Len(Considered) >= 2
    /\ IsOk(ret)
    /\ Len(ret.val) = Len(Considered)

\* The fields of SaveGame in declaration order, the fields of a nested
\* record right after the field that holds it.
RECURSIVE Declared(_, _), DeclaredRange(_, _, _, _)
DeclaredRange(ty, prefix, lo, hi) ==
    IF lo > hi THEN <<>>
    ELSE IF lo = hi
    THEN <<[path |-> Append(prefix, ShapeOf(ty)[lo].name), f |-> ShapeOf(ty)[lo]]>>
         \o (IF ShapeOf(ty)[lo].op = "try_into"
             THEN Declared(ShapeOf(ty)[lo].ty, Append(prefix, ShapeOf(ty)[lo].name))
             ELSE <<>>)
    ELSE DeclaredRange(ty, prefix, lo, (lo + hi) \div 2)
         \o DeclaredRange(ty, prefix, (lo + hi) \div 2 + 1, hi)

Declared(ty, prefix) == DeclaredRange(ty, prefix, 1, Len(ShapeOf(ty)))

DeclOrder == Declared("SaveGame", <<>>)

\* The field map of the record at a path of the document, if every element
\* on the path is there.
RECURSIVE ScopeOfRecord(_, _, _)
ScopeOfRecord(m, q, i) ==
    IF i > Len(q) THEN Some(m)
    ELSE IF q[i] \in DOMAIN m THEN ScopeOfRecord(FieldMap(m[q[i]]), q, i + 1)
    ELSE None

RecordPaths == {<<>>} \cup {DeclOrder[i].path : i \in {j \in DOMAIN DeclOrder : DeclOrder[j].f.op = "try_into"}}

\* Every field of the document judged on its own, in its own scope: the
\* outcome of each field whose scope exists, and the positions in
\* declaration order of those that fail.
Judged ==
    LET root == FieldMap(input.root_element)
        scopes == [q \in RecordPaths |-> ScopeOfRecord(root, q, 1)]
        scope(e) == scopes[SubSeq(e.path, 1, Len(e.path) - 1)]
        outcome == [i \in DOMAIN DeclOrder |->
                       IF ~IsSome(scope(DeclOrder[i])) THEN NoRet
                       ELSE IF DeclOrder[i].f.op = "try_into"
                       THEN get(Unwrap(scope(DeclOrder[i])), DeclOrder[i].f.name)
                       ELSE DecodeField(DeclOrder[i].f, Unwrap(scope(DeclOrder[i])))]
    IN  [outcome |-> outcome,
         failing |-> {i \in DOMAIN DeclOrder : outcome[i] # NoRet /\ ~IsOk(outcome[i])}]

First(S) == CHOOSE i \in S : \A j \in S : i <= j

\* C15: the fields of a load are examined in declaration order, player and
\* all of its fields before currentSeason; a load that ends has examined
\* every field when none fails on its own, and otherwise exactly the fields
\* up to the earliest one that fails, whose failure is the outcome of load
\* whatever later fields would have failed.
C15_FailureOfFirstFailingField ==
    /\ \A i \in DOMAIN examined : i <= Len(DeclOrder) /\ examined[i] = DeclOrder[i].path
    /\ (pc = "done" /\ input.well_formed) =>
            LET j == Judged
            IN  IF j.failing = {}
                THEN IsOk(ret) /\ Len(examined) = Len(DeclOrder)
                ELSE /\ ~IsOk(ret)
                     /\ ret = j.outcome[First(j.failing)]
                     /\ Len(examined) = First(j.failing)

\* Two fields fail on their own, one in player and one after it, and load
\* has ended with the failure of the earlier one.
C15_Witness ==
    /\ pc = "done" /\ input.well_formed
    /\ IsErr(ret)
    /\ Len(examined) > 1
    /\ Cardinality(Judged.failing) >= 2
    /\ \E i \in Judged.failing : Len(DeclOrder[i].path) = 1

\* C16: every message App handles leaves its fields as stated: after File
\* upload_task is present and content is what it was; after Loaded
\* upload_task is absent and content is the rendering of the record or of
\* the error that load gives for the data of that message; content, once
\* present, stays present.
C16_AppStateFollowsMessages ==
    [][/\ (handled'.kind = "File") =>
              (IsSome(app'.upload_task) /\ app'.content = app.content)
       /\ (handled'.kind = "Loaded") =>
              /\ app'.upload_task = None
              /\ IsSome(app'.content)
              /\ ~IsPanic(LoadData(handled'.data))
              /\ app'.content = Some(Render(LoadData(handled'.data)))
       /\ IsSome(app.content) => IsSome(app'.content)]_vars

\* The value of the nil attribute of an element, if it has one.
NilOf(c) == IF "nil" \in DOMAIN c.attrs THEN Some(c.attrs["nil"]) ELSE None

\* The element children of the container that carry nil="true".
MarkedTrue == SelectSeq(ItemElements, LAMBDA c : NilOf(c) = Some("true"))

\* The element children without the attribute or with another value of it.
NotMarkedTrue ==
    SelectSeq(ItemElements, LAMBDA c : NilOf(c) \in {None, Some("false"), Some("True"), Some("1")})

\* C17: try_into_list skips exactly the element children whose nil attribute
\* is "true": a child without the attribute or with "false", "True" or "1"
\* goes through the tag check and the decode, so the list succeeds only when
\* each of them carries the expected tag and decodes, and then holds one
\* record per such child.  get_list skips nothing: it succeeds only with one
\* entry per element child, and an element child without text, nil="true" or
\* not, makes the list fail.
C17_NilOnlyWhenExactlyTrue ==
    /\ (Returned({"try_into_list"}) /\ FieldPresent) =>
           /\ Len(MarkedTrue) + Len(NotMarkedTrue) = Len(ItemElements)
           /\ IsOk(ret) =>
                  /\ Len(ret.val) = Len(NotMarkedTrue)
                  /\ \A i \in DOMAIN NotMarkedTrue :
                         /\ NotMarkedTrue[i].tag = call.tag
                         /\ Fields(ItemShape, FieldMap(NotMarkedTrue[i])) = Ok(ret.val[i])
           /\ (\E i \in DOMAIN NotMarkedTrue :
                   \/ NotMarkedTrue[i].tag # call.tag
                   \/ ~IsOk(Fields(ItemShape, FieldMap(NotMarkedTrue[i])))) => IsErr(ret)
    /\ (Returned({"get_int_list", "get_string_list"}) /\ FieldPresent) =>
           /\ IsOk(ret) => Len(ret.val) = Len(ItemElements)
           /\ (\E i \in DOMAIN ItemElements : text(ItemElements[i]) = None) => IsErr(ret)

\* A list with an item marked "True" and an item marked "true" has decoded
\* the first and skipped the second.
C17_Witness ==
    /\ Returned({"try_into_list"}) /\ FieldPresent
    /\ \E i \in DOMAIN ItemElements : NilOf(ItemElements[i]) = Some("True")
    /\ MarkedTrue # <<>>
    /\ IsOk(ret)
    /\ Len(ret.val) = Len(ItemElements) - Len(MarkedTrue)

====
